---- MODULE Spec2Model ----
(***************************************************************************)
(* A model of golang-db-pool-pattern (src/main.go): a master goroutine     *)
(* (main), a job-source goroutine, a pool of worker goroutines and the     *)
(* retry goroutines the workers spawn, communicating over the two          *)
(* buffered channels `queue` and `results`.                                *)
(*                                                                         *)
(* The database (mgo.Dial, Collection.Insert) is the environment: a Dial   *)
(* may fail, an Insert returns nil, io.EOF / io.ErrUnexpectedEOF (the      *)
(* connection is lost) or any other error.  The database is out of reach   *)
(* (a Dial fails or an Insert loses the connection) at most outagesLeft    *)
(* times and fails an Insert otherwise at most permLeft times, so that     *)
(* every run of the model is finite.                                       *)
(***************************************************************************)
EXTENDS Bags, FiniteSets, Integers, Sequences, TLC

\* ---- bounds of the model ------------------------------------------------
MaxJobs == 4            \* largest --jobs of Spec with one worker
MaxLoad == 4            \* largest --jobs plus --workers of Spec with several workers
MaxWorkers == 2         \* largest --workers of Spec
MaxOutages == 2         \* failed Dials and lost connections the database may cause in Spec
MaxOutagesFair == 1     \* the same in FairSpec, whose liveness checks cost more
QueueCap == 1           \* capacity of `queue` (512 in the source, scaled down)
ResultCap == 1          \* capacity of `results` (512 in the source, scaled down)
MaxPermanent == 1       \* Inserts the environment may fail with another error in Spec
MaxJobsProgress == 105  \* largest --jobs of SpecProgress (one worker, reliable database)

VARIABLES
    jobs,           \* *jobs, the --jobs flag
    workers,        \* *workers, the --workers flag
    queue,          \* the channel `queue`: its buffer, a sequence of Jobs
    closed,         \* whether close(queue) has been executed
    results,        \* the channel `results`: its buffer, a sequence of JobResults
    mainPc,         \* position of main()
    mainI,          \* main's loop variable i (results fetched so far)
    announced,      \* main's variable `announced`
    progress,       \* the percentages logged by "Processing %d%% complete", in order
    failLog,        \* the results logged by "Job %d failed on worker %d (%s)", a bag
    consumed,       \* every result main has fetched from `results`, a bag
    srcPc,          \* position of the job-source goroutine
    srcI,           \* the job-source goroutine's loop variable i
    pushed,         \* the JobIds the job source has sent on `queue`, in order
    wPc,            \* position of each worker goroutine
    wJob,           \* each worker's loop variable `job`
    wErr,           \* each worker's variable `err`
    wConn,          \* state of each worker's collection handle `users`
    retries,        \* the retry goroutines that have not sent yet: a bag of Jobs
    requeued,       \* per JobId, how often a retry goroutine has sent it on `queue`
    attempts,       \* per JobId, the Inserts performed for it: <<worker, err>>, in order
    panicked,       \* the runtime panic that ended the process, or "none"
    outagesLeft,    \* failed Dials and lost connections the environment may still cause
    permLeft        \* Inserts the environment may still fail with another error

chanVars == <<queue, closed, results>>
mainVars == <<mainPc, mainI, announced, progress, failLog, consumed>>
srcVars == <<srcPc, srcI, pushed>>
workerVars == <<wPc, wJob, wErr, wConn>>
retryVars == <<retries, requeued>>
envVars == <<outagesLeft, permLeft>>
flagVars == <<jobs, workers>>
vars == <<flagVars, chanVars, mainVars, srcVars, workerVars, retryVars, attempts, panicked, envVars>>

\* ---- data ---------------------------------------------------------------
WorkerIds == 0 .. (MaxWorkers - 1)
JobIds == 0 .. (jobs - 1)

\* type Job struct { JobId int }
Job(id) == [JobId |-> id]

NoJob == [JobId |-> -1]

\* type JobResult struct { JobId int; WorkerId int; Error error }
JobResult(jobId, workerId, err) == [JobId |-> jobId, WorkerId |-> workerId, Error |-> err]

\* The values Collection.Insert returns: nil, the two errors the worker takes
\* for a lost connection, and some other error.
Errors == {"nil", "EOF", "ErrUnexpectedEOF", "x"}

IsTransientEOFOnly(err) == err = "EOF"

\* err == io.EOF || err == io.ErrUnexpectedEOF
IsTransient(err) == err = "EOF" \/ err = "ErrUnexpectedEOF"

\* The (i, jobs) with jobs <= 130 for which the float64 product
\* float64(i) / float64(jobs) * 100 lies above the exact value 100*i/jobs, an
\* integer, so that math.Ceil gives one more than the exact ceiling
\* (0.55 * 100 = 55.00000000000001).  For every other i < jobs <= 130 the
\* float64 result and the exact result have the same ceiling.
FloatExcess ==
    {<<11, 20>>, <<7, 25>>, <<14, 25>>, <<22, 40>>, <<7, 50>>, <<14, 50>>, <<28, 50>>,
     <<33, 60>>, <<21, 75>>, <<42, 75>>, <<44, 80>>, <<7, 100>>, <<14, 100>>, <<28, 100>>,
     <<55, 100>>, <<56, 100>>, <<66, 120>>, <<35, 125>>, <<70, 125>>}

CeilDiv(a, b) == (a + b - 1) \div b

\* percentage := int(math.Ceil(float64(i) / float64(*jobs) * 100))
Percentage(i, n) == CeilDiv(100 * i, n) + (IF <<i, n>> \in FloatExcess THEN 1 ELSE 0)

\* if percentage > announced { announced = percentage; ... }
NextAnnounced(percentage, ann) == IF percentage > ann THEN percentage ELSE ann

NextProgressNoGuard(percentage, ann, log) ==
    IF percentage % 5 = 0 THEN Append(log, percentage) ELSE log

\* if percentage > announced { ...; if percentage%5 == 0 { log.Printf(...) } }
NextProgress(percentage, ann, log) ==
    IF percentage > ann /\ percentage % 5 = 0 THEN Append(log, percentage) ELSE log

\* The process is running: main has not returned and no goroutine has panicked.
Alive == mainPc # "done" /\ panicked = "none"

\* ---- initial states -----------------------------------------------------
InitWith(n, w, o, p) ==
    /\ jobs = n
    /\ workers = w
    /\ queue = <<>>
    /\ closed = FALSE
    /\ results = <<>>
    /\ mainPc = "start"
    /\ mainI = 0
    /\ announced = 0
    /\ progress = <<>>
    /\ failLog = EmptyBag
    /\ consumed = EmptyBag
    /\ srcPc = "off"
    /\ srcI = 0
    /\ pushed = <<>>
    /\ wPc = [w1 \in WorkerIds |-> "off"]
    /\ wJob = [w1 \in WorkerIds |-> NoJob]
    /\ wErr = [w1 \in WorkerIds |-> "nil"]
    /\ wConn = [w1 \in WorkerIds |-> "none"]
    /\ retries = EmptyBag
    /\ requeued = [j \in 0 .. (n - 1) |-> 0]
    /\ attempts = [j \in 0 .. (n - 1) |-> <<>>]
    /\ panicked = "none"
    /\ outagesLeft = o
    /\ permLeft = p

\* The largest --jobs of Spec for w workers.
JobsFor(w) == IF w = 1 THEN MaxJobs ELSE MaxLoad - w

Init ==
    \E w \in 1 .. MaxWorkers : \E n \in 0 .. JobsFor(w) :
        InitWith(n, w, MaxOutages, MaxPermanent)

InitFair ==
    \E w \in 1 .. MaxWorkers : \E n \in 0 .. JobsFor(w) :
        InitWith(n, w, MaxOutagesFair, MaxPermanent)

\* One worker and a database that never fails, for the progress output of
\* main, which depends on i and *jobs only.
InitProgress == \E n \in 1 .. MaxJobsProgress : InitWith(n, 1, 0, 0)

\* ---- main ---------------------------------------------------------------
\* Spin up the workers, start the timer, start the job source.
MainStart ==
    /\ Alive
    /\ mainPc = "start"
    /\ wPc' = [w \in WorkerIds |-> IF w < workers THEN "connect" ELSE "off"]
    /\ srcPc' = IF 0 < jobs THEN "run" ELSE "done"
    /\ mainPc' = "loop"
    /\ UNCHANGED <<flagVars, chanVars, mainI, announced, progress, failLog, consumed,
                   srcI, pushed, wJob, wErr, wConn, retryVars, attempts, panicked, envVars>>

MoreResultsOneMore(i, n) == 0 < n /\ i <= n

MoreResultsShort(i, n) == i + 1 < n

\* The condition of main's loop: i < *jobs
MoreResults(i, n) == i < n

\* for i := 0; i < *jobs; i++ { announce progress ...
MainLoop ==
    /\ Alive
    /\ mainPc = "loop"
    /\ IF MoreResults(mainI, jobs)
         THEN /\ announced' = NextAnnounced(Percentage(mainI, jobs), announced)
              /\ progress' = NextProgress(Percentage(mainI, jobs), announced, progress)
              /\ mainPc' = "recv"
         ELSE /\ mainPc' = "close"
              /\ UNCHANGED <<announced, progress>>
    /\ UNCHANGED <<flagVars, chanVars, mainI, failLog, consumed, srcVars, workerVars,
                   retryVars, attempts, panicked, envVars>>

NextFailLogNever(result, log) == log

\* The failures main logs on fetching result.
NextFailLog(result, log) ==
    IF result.Error # "nil" THEN log (+) SetToBag({result}) ELSE log

\* ... result := <-results; if result.Error != nil { log; continue } }
MainReceive ==
    /\ Alive
    /\ mainPc = "recv"
    /\ results # <<>>
    /\ results' = Tail(results)
    /\ failLog' = NextFailLog(Head(results), failLog)
    /\ consumed' = consumed (+) SetToBag({Head(results)})
    /\ mainI' = mainI + 1
    /\ mainPc' = "loop"
    /\ UNCHANGED <<flagVars, queue, closed, announced, progress, srcVars, workerVars,
                   retryVars, attempts, panicked, envVars>>

\* close(queue)
MainClose ==
    /\ Alive
    /\ mainPc = "close"
    /\ closed' = TRUE
    /\ mainPc' = "stats"
    /\ UNCHANGED <<flagVars, queue, results, mainI, announced, progress, failLog, consumed,
                   srcVars, workerVars, retryVars, attempts, panicked, envVars>>

\* duration.Nanoseconds() / int64(*jobs), the two log lines, return.
MainStats ==
    /\ Alive
    /\ mainPc = "stats"
    /\ IF jobs = 0
         THEN panicked' = "integer divide by zero" /\ UNCHANGED mainPc
         ELSE mainPc' = "done" /\ UNCHANGED panicked
    /\ UNCHANGED <<flagVars, chanVars, mainI, announced, progress, failLog, consumed,
                   srcVars, workerVars, retryVars, attempts, envVars>>

\* ---- the job source -----------------------------------------------------
SourceJobZero(i) == Job(0)

\* &Job{JobId: i}
SourceJob(i) == Job(i)

\* for i := 0; i < *jobs; i++ { queue <- &Job{JobId: i} }
SourcePush ==
    /\ Alive
    /\ srcPc = "run"
    /\ closed \/ Len(queue) < QueueCap
    /\ IF closed
         THEN /\ panicked' = "send on closed channel"
              /\ UNCHANGED <<queue, srcVars>>
         ELSE /\ queue' = Append(queue, SourceJob(srcI))
              /\ pushed' = Append(pushed, SourceJob(srcI).JobId)
              /\ srcI' = srcI + 1
              /\ srcPc' = IF srcI + 1 < jobs THEN "run" ELSE "done"
              /\ UNCHANGED panicked
    /\ UNCHANGED <<flagVars, closed, results, mainVars, workerVars, retryVars, attempts, envVars>>

\* ---- the workers --------------------------------------------------------
WaitsForRetryInline(w) == retries # EmptyBag

\* Whether worker w, having lost the connection, waits for the send of its
\* job before it reconnects: the send is in a go statement, which returns
\* at once.
WaitsForRetry(w) == FALSE

\* connect: mgo.Dial fails, the loop tries again.
WorkerDialFail(w) ==
    /\ Alive
    /\ wPc[w] = "connect"
    /\ ~WaitsForRetry(w)
    /\ outagesLeft > 0
    /\ outagesLeft' = outagesLeft - 1
    /\ UNCHANGED <<flagVars, chanVars, mainVars, srcVars, workerVars, retryVars, attempts,
                   panicked, permLeft>>

\* connect: mgo.Dial succeeds, users = the collection handle.
WorkerConnect(w) ==
    /\ Alive
    /\ wPc[w] = "connect"
    /\ ~WaitsForRetry(w)
    /\ wConn' = [wConn EXCEPT ![w] = "valid"]
    /\ wPc' = [wPc EXCEPT ![w] = "range"]
    /\ UNCHANGED <<flagVars, chanVars, mainVars, srcVars, wJob, wErr, retryVars, attempts,
                   panicked, envVars>>

\* for job := range queue: receive a job, or leave the loop when the queue is
\* closed and empty.
WorkerRange(w) ==
    /\ Alive
    /\ wPc[w] = "range"
    /\ queue # <<>> \/ closed
    /\ IF queue # <<>>
         THEN /\ wJob' = [wJob EXCEPT ![w] = Head(queue)]
              /\ queue' = Tail(queue)
              /\ wPc' = [wPc EXCEPT ![w] = "insert"]
         ELSE /\ wPc' = [wPc EXCEPT ![w] = "exit"]
              /\ UNCHANGED <<wJob, queue>>
    /\ UNCHANGED <<flagVars, closed, results, mainVars, srcVars, wErr, wConn, retryVars,
                   attempts, panicked, envVars>>

RetryJobStale(job) == Job(0)

\* The Job the retry goroutine of a worker is started with: the argument
\* `job` of the go statement.
RetryJob(job) == job

SpawnRetryDropped(job, rs) == rs

SpawnRetryTwice(job, rs) == rs (+) SetToBag({job}) (+) SetToBag({job})

\* go func(job *Job, queue chan *Job) { ... }(job, queue): one more retry goroutine.
SpawnRetry(job, rs) == rs (+) SetToBag({RetryJob(job)})

PcAfterLostNoReconnect == "range"

\* Where a worker goes on after a lost connection: users = connect(id, session),
\* then continue.
PcAfterLost == "connect"

\* What an Insert adds to the record of attempts: the worker and the error,
\* the two lost-connection errors recorded alike.
Attempt(w, err) == <<w, IF IsTransient(err) THEN "transient" ELSE err>>

\* err := users.Insert(...); on a lost connection start the retry goroutine
\* and reconnect, otherwise go on to send the result.
WorkerInsert(w) ==
    /\ Alive
    /\ wPc[w] = "insert"
    /\ \E err \in Errors :
        /\ attempts' = [attempts EXCEPT ![wJob[w].JobId] = Append(@, Attempt(w, err))]
        /\ IF IsTransient(err)
             THEN /\ outagesLeft > 0
                  /\ outagesLeft' = outagesLeft - 1
                  /\ retries' = SpawnRetry(wJob[w], retries)
                  /\ wConn' = [wConn EXCEPT ![w] = "lost"]
                  /\ wPc' = [wPc EXCEPT ![w] = PcAfterLost]
                  /\ wJob' = [wJob EXCEPT ![w] = NoJob]
                  /\ UNCHANGED <<wErr, permLeft>>
             ELSE /\ err # "nil" => permLeft > 0
                  /\ permLeft' = IF err # "nil" THEN permLeft - 1 ELSE permLeft
                  /\ wErr' = [wErr EXCEPT ![w] = err]
                  /\ wPc' = [wPc EXCEPT ![w] = "send"]
                  /\ UNCHANGED <<outagesLeft, retries, wConn, wJob>>
    /\ UNCHANGED <<flagVars, chanVars, mainVars, srcVars, requeued, panicked>>

WorkerResultWorkerZero(w) == JobResult(wJob[w].JobId, 0, wErr[w])

\* The JobResult a worker sends for its job.
WorkerResult(w) == JobResult(wJob[w].JobId, w, wErr[w])

\* results <- &JobResult{...}; count++ and back to the head of the loop,
\* where `job` and `err` are dead until the next receive and Insert.
WorkerSend(w) ==
    /\ Alive
    /\ wPc[w] = "send"
    /\ Len(results) < ResultCap
    /\ results' = Append(results, WorkerResult(w))
    /\ wPc' = [wPc EXCEPT ![w] = "range"]
    /\ wJob' = [wJob EXCEPT ![w] = NoJob]
    /\ wErr' = [wErr EXCEPT ![w] = "nil"]
    /\ UNCHANGED <<flagVars, queue, closed, mainVars, srcVars, wConn, retryVars,
                   attempts, panicked, envVars>>

\* ---- the retry goroutines ------------------------------------------------
\* go func(job *Job, queue chan *Job) { queue <- job }(job, queue)
RetryPush(job) ==
    /\ Alive
    /\ BagIn(job, retries)
    /\ closed \/ Len(queue) < QueueCap
    /\ IF closed
         THEN /\ panicked' = "send on closed channel"
              /\ UNCHANGED <<queue, retryVars>>
         ELSE /\ queue' = Append(queue, job)
              /\ retries' = retries (-) SetToBag({job})
              /\ requeued' = [requeued EXCEPT ![job.JobId] = @ + 1]
              /\ UNCHANGED panicked
    /\ UNCHANGED <<flagVars, closed, results, mainVars, srcVars, workerVars, attempts, envVars>>

\* ---- the system ---------------------------------------------------------
Main == MainStart \/ MainLoop \/ MainReceive \/ MainClose \/ MainStats

Worker(w) ==
    \/ WorkerDialFail(w)
    \/ WorkerConnect(w)
    \/ WorkerRange(w)
    \/ WorkerInsert(w)
    \/ WorkerSend(w)

Retry == \E job \in BagToSet(retries) : RetryPush(job)

Next ==
    \/ Main
    \/ SourcePush
    \/ \E w \in WorkerIds : Worker(w)
    \/ Retry

Spec == Init /\ [][Next]_vars

\* Every goroutine that can run is eventually scheduled; the database fails
\* only as often as its budgets allow.
Fairness ==
    /\ WF_vars(Main)
    /\ WF_vars(SourcePush)
    /\ \A w \in WorkerIds : WF_vars(Worker(w))
    /\ WF_vars(Retry)

FairSpec == InitFair /\ [][Next]_vars /\ Fairness

\* The system with a database that never fails: no Dial fails and no retry
\* goroutine is ever started.
NextReliable ==
    \/ Main
    \/ SourcePush
    \/ \E w \in WorkerIds : WorkerConnect(w) \/ WorkerRange(w) \/ WorkerInsert(w) \/ WorkerSend(w)

SpecProgress == InitProgress /\ [][NextReliable]_vars

\* ---- what the properties speak of ----------------------------------------
Last(s) == s[Len(s)]

\* The number of elements of bag b that lie in the set S of its elements.
BagCount(b, S) == BagCardinality([r \in S |-> b[r]])

ConsumedOf(j) == {r \in BagToSet(consumed) : r.JobId = j}

\* The results emitted for job j so far: those still in `results` and those
\* main has fetched.
EmittedResults(j) == {results[k] : k \in {k1 \in 1 .. Len(results) : results[k1].JobId = j}} \cup ConsumedOf(j)

Emitted(j) ==
    Cardinality({k \in 1 .. Len(results) : results[k].JobId = j}) + BagCount(consumed, ConsumedOf(j))

AllEmitted == {results[k] : k \in 1 .. Len(results)} \cup BagToSet(consumed)

Succeeded == BagCount(consumed, {r \in BagToSet(consumed) : r.Error = "nil"})

Failed == BagCardinality(failLog)

\* main has left its receive loop.
LoopFinished == mainPc \in {"close", "stats", "done"}

TransientAttempts(j) == {k \in 1 .. Len(attempts[j]) : attempts[j][k][2] = "transient"}

\* The jobs whose last attempt failed with an error other than a lost connection.
PermFailed ==
    {j \in JobIds : Len(attempts[j]) >= 1 /\ Last(attempts[j])[2] \notin {"nil", "transient"}}

\* The jobs taken from `queue` that are neither back in it nor resulted:
\* held by a worker or by a retry goroutine that has not sent yet.
InFlight == Cardinality({w \in WorkerIds : wPc[w] \in {"insert", "send"}}) + BagCardinality(retries)

\* C1: at most one result is ever emitted per job id, every result is for a
\* job id in [0, jobs), and once main has left its receive loop it has fetched
\* exactly jobs results, one per job id, successes plus failures being jobs.
Conservation ==
    jobs >= 1 =>
        /\ \A j \in JobIds : Emitted(j) <= 1
        /\ \A r \in AllEmitted : r.JobId \in JobIds
        /\ LoopFinished =>
            /\ BagCardinality(consumed) = jobs
            /\ \A j \in JobIds : BagCount(consumed, ConsumedOf(j)) = 1
            /\ Succeeded + Failed = jobs

ConservationWitness ==
    /\ mainPc = "done"
    /\ jobs = 2
    /\ workers = 2
    /\ \E j \in JobIds : requeued[j] >= 1
    /\ Failed = 1
    /\ Succeeded = 1

FirstTransient(j) == j < jobs /\ Len(attempts[j]) >= 1 /\ attempts[j][1][2] = "transient"

\* Job j has exactly one result, and it carries the error of the job's last
\* attempt, which was not a lost connection.
ResolvedOnce(j) ==
    /\ Emitted(j) = 1
    /\ Last(attempts[j])[2] # "transient"
    /\ \A r \in EmittedResults(j) : r.Error = Last(attempts[j])[2]

\* Every job whose first attempt lost the connection is resolved.
RetriedResolved == \A j \in JobIds : FirstTransient(j) => ResolvedOnce(j)

\* C2: under fair scheduling a job whose first attempt lost the connection
\* eventually has a result (the first attempt of a job never changes, so
\* that it is enough that again and again all such jobs are resolved); it
\* never has more than one, the result carries the outcome of the job's last
\* attempt, and main ends with jobs results.
NoLossUnderRetry ==
    /\ []<>RetriedResolved
    /\ [](\A j \in JobIds : FirstTransient(j) =>
            /\ Emitted(j) <= 1
            /\ Emitted(j) = 1 => ResolvedOnce(j))
    /\ []((jobs >= 1 /\ LoopFinished) => BagCardinality(consumed) = jobs)

NoLossUnderRetryWitness ==
    /\ mainPc = "done"
    /\ workers = 1
    /\ jobs = 4
    /\ attempts = [j \in 0 .. 3 |-> IF j = 2 THEN <<<<0, "transient">>, <<0, "nil">>>> ELSE <<<<0, "nil">>>>]
    /\ JobResult(2, 0, "nil") \in BagToSet(consumed)
    /\ BagCardinality(consumed) = 4

MainBlocked == mainPc = "recv" /\ results = <<>>

WorkerBlocked(w) ==
    \/ wPc[w] \in {"off", "exit"}
    \/ wPc[w] = "range" /\ queue = <<>> /\ ~closed
    \/ wPc[w] = "send" /\ Len(results) >= ResultCap

SourceBlocked == srcPc \in {"off", "done"} \/ (srcPc = "run" /\ ~closed /\ Len(queue) >= QueueCap)

RetriesBlocked == retries = EmptyBag \/ (~closed /\ Len(queue) >= QueueCap)

\* main waits for a result and no goroutine can take a step.
AllBlocked ==
    /\ Alive
    /\ MainBlocked
    /\ \A w \in WorkerIds : WorkerBlocked(w)
    /\ SourceBlocked
    /\ RetriesBlocked

\* C3: with Dials and lost connections bounded and fair scheduling, the
\* goroutines are never all blocked, and main eventually has fetched jobs
\* results and closed the queue.
Termination ==
    /\ []~AllBlocked
    /\ <>(closed /\ mainI = jobs /\ BagCardinality(consumed) = jobs)

TerminationWitness ==
    /\ closed
    /\ jobs > QueueCap + ResultCap + workers
    /\ BagCardinality(consumed) = jobs
    /\ outagesLeft = 0
    /\ \E j \in JobIds : requeued[j] >= 1

Phase ==
    CASE mainPc = "start" -> "NotStarted"
      [] mainPc \in {"loop", "recv", "close"} -> "Running"
      [] mainPc = "stats" -> "Draining"
      [] mainPc = "done" -> "Complete"

PhaseStep ==
    \/ Phase' = Phase
    \/ <<Phase, Phase'>> \in
        {<<"NotStarted", "Running">>, <<"Running", "Draining">>, <<"Draining", "Complete">>}

ClosedOnlyAfterAll ==
    (closed \/ mainPc \in {"stats", "done"}) => (mainI = jobs /\ BagCardinality(consumed) = jobs)

\* C4: main goes NotStarted -> Running -> Draining -> Complete, the queue is
\* closed exactly in Draining and Complete, and whenever the queue is closed
\* or main has ended, main has fetched jobs results.
CoordinatorOrder ==
    /\ [](ClosedOnlyAfterAll /\ (closed <=> Phase \in {"Draining", "Complete"}))
    /\ [][PhaseStep]_vars

CoordinatorOrderWitness ==
    /\ mainPc = "stats"
    /\ closed
    /\ jobs = 2
    /\ workers = 2
    /\ \E w \in WorkerIds : wPc[w] = "range"
    /\ \E w \in WorkerIds : wPc[w] = "exit"

\* C5: when main has ended, the progress lines are 5, 10, ..., 100, each once
\* and in increasing order.
ProgressCoverage ==
    (jobs >= 1 /\ mainPc = "done") => progress = [k \in 1 .. 20 |-> 5 * k]

\* C6: the jobs in flight never exceed the capacity of the queue plus the
\* number of workers.
BackpressureBound == jobs >= 1 => InFlight <= QueueCap + workers

\* C7: the job source sends the job ids 0, 1, 2, ... in this order, each once,
\* is done exactly when it has sent all of 0..jobs-1, which it has when main
\* leaves its loop, and sends nothing while the queue is full.
SourceOrder ==
    /\ [](/\ pushed = [k \in 1 .. srcI |-> k - 1]
          /\ srcI <= jobs
          /\ (srcPc = "done" <=> (mainPc # "start" /\ srcI = jobs))
          /\ LoopFinished => srcI = jobs)
    /\ [][(~closed /\ Len(queue) >= QueueCap) => (pushed' = pushed /\ srcI' = srcI)]_vars

SourceOrderWitness ==
    /\ srcPc = "run"
    /\ Len(queue) >= QueueCap
    /\ pushed = <<0, 1>>
    /\ jobs = 4

\* C8: every logged failure is logged once, is for a job whose last attempt
\* failed permanently and carries that attempt's error; main goes on fetching
\* after a failure; when main leaves its loop it has fetched jobs results and
\* logged as many failures as jobs failed permanently.
PermanentFailures ==
    jobs >= 1 =>
        /\ \A r \in BagToSet(failLog) :
            /\ CopiesIn(r, failLog) = 1
            /\ r.JobId \in PermFailed
            /\ r.Error = Last(attempts[r.JobId])[2]
        /\ \A r1, r2 \in BagToSet(failLog) : r1.JobId = r2.JobId => r1 = r2
        /\ (failLog # EmptyBag /\ mainI < jobs) => (Alive /\ mainPc \in {"loop", "recv"})
        /\ LoopFinished =>
            /\ BagCardinality(consumed) = jobs
            /\ Failed = Cardinality(PermFailed)

PermanentFailuresWitness ==
    /\ mainPc = "done"
    /\ jobs = 3
    /\ workers = 1
    /\ failLog = SetToBag({JobResult(1, 0, "x")})
    /\ Succeeded = 2
    /\ BagCardinality(consumed) = 3

\* C9: the retry goroutines carry and send the ids of the jobs whose attempts
\* lost the connection, one per such attempt, and every result carries a job
\* id in [0, jobs) together with the worker and the error of that job's last
\* attempt.
Identity ==
    jobs >= 1 =>
        /\ \A job \in BagToSet(retries) : job.JobId \in JobIds
        /\ \A j \in JobIds :
            requeued[j] + CopiesIn(Job(j), retries) = Cardinality(TransientAttempts(j))
        /\ \A r \in AllEmitted :
            /\ r.JobId \in JobIds
            /\ Len(attempts[r.JobId]) >= 1
            /\ Last(attempts[r.JobId]) = <<r.WorkerId, r.Error>>

IdentityWitness ==
    \E j \in JobIds :
        /\ attempts[j] = <<<<0, "transient">>, <<1, "nil">>>>
        /\ requeued[j] = 1
        /\ JobResult(j, 1, "nil") \in BagToSet(consumed)

\* C10: every progress line is a multiple of 5 in 5..100 and the lines are
\* strictly increasing, so none is repeated.
ProgressMonotone ==
    \A k \in 1 .. Len(progress) :
        /\ progress[k] \in 5 .. 100
        /\ progress[k] % 5 = 0
        /\ k > 1 => progress[k - 1] < progress[k]

ProgressMonotoneWitness ==
    /\ mainPc = "done"
    /\ jobs > 100
    /\ progress = [k \in 1 .. 20 |-> 5 * k]

\* The number of places job id j is in: not yet generated, in the queue, held
\* by a worker, held by a retry goroutine that has not sent yet, or resulted.
Places(j) ==
    (IF j >= srcI THEN 1 ELSE 0)
    + Cardinality({k \in 1 .. Len(queue) : queue[k].JobId = j})
    + Cardinality({w \in WorkerIds : wJob[w].JobId = j})
    + CopiesIn(Job(j), retries)
    + Emitted(j)

\* C11: every job id in [0, jobs) is in exactly one place, a worker holds a
\* job exactly while it is between its receive and its send or retry, and no
\* result, in `results` or fetched or logged by main, carries a
\* lost-connection error.
OnePlace ==
    jobs >= 1 =>
        /\ \A j \in JobIds : Places(j) = 1
        /\ \A w \in WorkerIds : (wJob[w] # NoJob) <=> (wPc[w] \in {"insert", "send"})
        /\ \A r \in AllEmitted \cup BagToSet(failLog) : r.Error \notin {"EOF", "ErrUnexpectedEOF"}

OnePlaceWitness ==
    /\ workers = 1
    /\ jobs = 4
    /\ srcI = 3
    /\ attempts[0] = <<<<0, "transient">>>>
    /\ retries = SetToBag({Job(0)})
    /\ queue = <<Job(2)>>
    /\ wJob[0] = Job(1)
    /\ results = <<>>
    /\ consumed = EmptyBag

HandleOk ==
    \A w \in WorkerIds :
        /\ wPc[w] \in {"range", "insert", "send"} => wConn[w] = "valid"
        /\ wPc[w] = "off" => wConn[w] = "none"
        /\ wConn[w] = "lost" => wPc[w] = "connect"

HandleStep ==
    \A w \in WorkerIds :
        /\ (wJob'[w] # NoJob /\ wJob'[w] # wJob[w]) => (wConn[w] = "valid" /\ wConn'[w] = "valid")
        /\ Len(results') > Len(results) /\ Last(results').WorkerId = w => wConn[w] = "valid"
        /\ (\E j \in JobIds : Len(attempts'[j]) > Len(attempts[j]) /\ Last(attempts'[j])[1] = w)
            => wConn[w] = "valid"
        /\ (wConn[w] # "valid" /\ wConn'[w] = "valid") => (wPc[w] = "connect" /\ wPc'[w] = "range")
        /\ (wConn[w] = "valid" /\ wConn'[w] # "valid")
            => (wConn'[w] = "lost" /\ wPc[w] = "insert" /\ wPc'[w] = "connect")

\* C13: a worker is at its receive, at its Insert or at its send only with a
\* valid handle; it receives, inserts and sends only with a valid handle; a
\* handle becomes valid only by a Dial of its worker, from which the worker
\* goes to its receive, and a worker that lost its handle is reconnecting.
ValidHandle == []HandleOk /\ [][HandleStep]_vars

\* Worker 1 has lost its connection at job 0, has reconnected and holds the
\* next job it received.
ValidHandleWitness ==
    /\ workers = 2
    /\ jobs = 2
    /\ attempts[0] = <<<<1, "transient">>>>
    /\ wConn[1] = "valid"
    /\ wJob[1] = Job(1)
    /\ wPc[1] = "insert"
    /\ retries = SetToBag({Job(0)})

ExitStep ==
    \A w \in WorkerIds :
        (wPc[w] # "exit" /\ wPc'[w] = "exit") =>
            (closed /\ queue = <<>> /\ wJob[w] = NoJob /\ wPc[w] = "range")

\* C14: a worker leaves its receive loop only from its receive, with the
\* queue closed and empty and no job in its hands, and once the queue is
\* closed (after a batch of at least one job, which main survives) every
\* worker waiting at its receive eventually leaves the loop.
WorkerExit ==
    /\ [][ExitStep]_vars
    /\ \A w \in WorkerIds : (jobs >= 1 /\ closed /\ wPc[w] = "range") ~> (wPc[w] = "exit")

\* C15: when main is about to close the queue, and ever after, the job source
\* has sent all jobs and is done, the queue is empty, no worker holds a job
\* and no retry goroutine is pending; no send on the closed queue happens.
SafeClose ==
    /\ (mainPc = "close" \/ closed) =>
        /\ srcI = jobs
        /\ srcPc = "done"
        /\ queue = <<>>
        /\ \A w \in WorkerIds : wJob[w] = NoJob
        /\ retries = EmptyBag
    /\ panicked # "send on closed channel"

SafeCloseWitness ==
    /\ closed
    /\ workers = 1
    /\ jobs = 4
    /\ outagesLeft = 0
    /\ \E j \in JobIds : requeued[j] = 2
    /\ panicked = "none"

\* C16: a progress line for percentage p is logged only when the number k of
\* results main has fetched satisfies 100 * k >= p * jobs.
NotEarly ==
    [][Len(progress') > Len(progress) => 100 * mainI >= Last(progress') * jobs]_vars

\* C17: with jobs = 0 main fetches no result and no runtime error ends the
\* process.
EmptyBatch == jobs = 0 => (consumed = EmptyBag /\ mainI = 0 /\ panicked = "none")

====
